---- MODULE Spec2Model ----
(* External scanner of tree-sitter-rpmspec (src/src/scanner.c): the macro    *)
(* token recognizer, its literal stack and its serialize/deserialize codec,  *)
(* driven by a host that requests tokens over a document.                    *)
EXTENDS Integers, Sequences, FiniteSets, TLC

(* ---------------------------------------------------------------- bounds *)
\* longest document built exhaustively from Alphabet
MaxLen == 3
\* largest N of the balanced-nesting documents %{ {^N }^(N+1)
MaxNest == 2
\* longest byte buffer the host hands to deserialize
MaxBuf == 2
\* cap on the number of tokens recorded in one session
MaxTokens == 4
\* deepest literal stack a scan call is compared against
MaxStack == 2

(* ------------------------------------------------------- enum TokenType *)
MACRO_START == 0
MACRO_EXPR_START == 1
MACRO_SHELL_START == 2
MACRO_END == 3
NONE == 4

(* ------------------------------------------- character literals (codepoints) *)
PERCENT == 37
LBRACE == 123
RBRACE == 125
LBRACKET == 91
RBRACKET == 93
LPAREN == 40
RPAREN == 41

\* 'a' = 97, 'b' = 98, 'c' = 99, ' ' = 32, '_' = 95, 'f' = 102, 'o' = 111,
\* 'r' = 114, '1' = 49, '2' = 50, '3' = 51
Alphabet == {PERCENT, LBRACE, LBRACKET, LPAREN, 97}

RECURSIVE Strings(_)
Strings(n) ==
    IF n = 0 THEN {<< >>}
    ELSE LET shorter == Strings(n - 1)
         IN  shorter \cup {Append(s, c) : s \in {t \in shorter : Len(t) = n - 1},
                                          c \in Alphabet}

RECURSIVE Repeat(_, _)
Repeat(c, n) == IF n = 0 THEN << >> ELSE <<c>> \o Repeat(c, n - 1)

\* %{ followed by N '{' and N+1 '}'
Nest(n) == <<PERCENT, LBRACE>> \o Repeat(LBRACE, n) \o Repeat(RBRACE, n + 1)

\* %{a %[b] c}
MixedDoc == <<PERCENT, LBRACE, 97, 32, PERCENT, LBRACKET, 98, RBRACKET, 32, 99, RBRACE>>

\* %_foo123 bar
SimpleDoc == <<PERCENT, 95, 102, 111, 111, 49, 50, 51, 32, 98, 97, 114>>

\* %%a  %%%  %%{  %(a)  %x  "% "
EscapeDocs == { <<PERCENT, PERCENT, 97>>, <<PERCENT, PERCENT, PERCENT>>,
                <<PERCENT, PERCENT, LBRACE>>,
                <<PERCENT, LPAREN, 97, RPAREN>>, <<PERCENT, 32>> }

Inputs == Strings(MaxLen) \cup {Nest(n) : n \in 0..MaxNest}
            \cup {MixedDoc, SimpleDoc} \cup EscapeDocs

\* valid_symbols: one flag per token the grammar can request
ValidSets == [MACRO_START..MACRO_END -> BOOLEAN]

AllValid == [k \in MACRO_START..MACRO_END |-> TRUE]

Bytes == {0, 255}

RECURSIVE ByteStrings(_)
ByteStrings(n) ==
    IF n = 0 THEN {<< >>}
    ELSE LET shorter == ByteStrings(n - 1)
         IN  shorter \cup {Append(s, b) : s \in {t \in shorter : Len(t) = n - 1},
                                          b \in Bytes}

Buffers == ByteStrings(MaxBuf)

(* ------------------------------------------------------------- TSLexer *)
\* lexer->lookahead: the codepoint under the cursor, 0 at end of input
lookahead(text, lexer) ==
    IF lexer.pos <= Len(text) THEN text[lexer.pos] ELSE 0

\* advance(lexer): lexer->advance(lexer, false)
advance(text, lexer) ==
    [lexer EXCEPT !.pos = IF @ <= Len(text) THEN @ + 1 ELSE @,
                  !.advances = @ + 1]

(* ------------------------------------------------------ codec (TODO stubs) *)
\* rpmspec_serialize: size = 0, nothing written to the buffer
rpmspec_serialize(scanner, buffer) ==
    [size |-> 0, buffer |-> buffer, scanner |-> scanner]

\* variant: restores one zeroed entry whatever the buffer holds
rpmspec_deserialize_extra_entry(scanner, buffer, length) ==
    Append(scanner, [type |-> MACRO_START, open_delimiter |-> 0,
                     close_delimiter |-> 0, nesting_depth |-> 0,
                     allows_interpolation |-> FALSE])

\* rpmspec_deserialize: empty body, the scanner is left as it was
rpmspec_deserialize(scanner, buffer, length) ==
    scanner

(* ------------------------------------------------------------ scanning *)
\* struct Literal literal = { .nesting_depth = 1 }
InitLiteral ==
    [type |-> MACRO_START, open_delimiter |-> 0, close_delimiter |-> 0,
     nesting_depth |-> 1, allows_interpolation |-> FALSE]

\* variant: reports success after a matched delimiter, and the check of
\* valid_symbols[MACRO_EXPR_START] is missing
rpmspec_macro_start_unchecked(text, lexer, literal, valid_symbols) ==
    IF lookahead(text, lexer) = PERCENT
    THEN LET l1 == advance(text, lexer)
             c  == lookahead(text, l1)
         IN  CASE c = LBRACE ->
                    IF ~valid_symbols[MACRO_START]
                    THEN [ok |-> FALSE, lexer |-> l1, literal |-> literal]
                    ELSE [ok |-> TRUE, lexer |-> advance(text, l1),
                          literal |-> [literal EXCEPT !.type = MACRO_START,
                                                      !.open_delimiter = LBRACE,
                                                      !.close_delimiter = RBRACE]]
               [] c = LBRACKET ->
                    [ok |-> TRUE, lexer |-> advance(text, l1),
                     literal |-> [literal EXCEPT !.type = MACRO_EXPR_START,
                                                 !.open_delimiter = LBRACKET,
                                                 !.close_delimiter = RBRACKET]]
               [] c = LPAREN ->
                    IF ~valid_symbols[MACRO_SHELL_START]
                    THEN [ok |-> FALSE, lexer |-> l1, literal |-> literal]
                    ELSE [ok |-> TRUE, lexer |-> advance(text, l1),
                          literal |-> [literal EXCEPT !.type = MACRO_SHELL_START,
                                                      !.open_delimiter = LPAREN,
                                                      !.close_delimiter = RPAREN]]
               [] OTHER -> [ok |-> FALSE, lexer |-> l1, literal |-> literal]
    ELSE [ok |-> FALSE, lexer |-> lexer, literal |-> literal]

\* variant: the final statement is `return true`
rpmspec_macro_start_returns_true(text, lexer, literal, valid_symbols) ==
    IF lookahead(text, lexer) = PERCENT
    THEN LET l1 == advance(text, lexer)
             c  == lookahead(text, l1)
         IN  CASE c = LBRACE ->
                    IF ~valid_symbols[MACRO_START]
                    THEN [ok |-> FALSE, lexer |-> l1, literal |-> literal]
                    ELSE [ok |-> TRUE, lexer |-> advance(text, l1),
                          literal |-> [literal EXCEPT !.type = MACRO_START,
                                                      !.open_delimiter = LBRACE,
                                                      !.close_delimiter = RBRACE]]
               [] c = LBRACKET ->
                    IF ~valid_symbols[MACRO_EXPR_START]
                    THEN [ok |-> FALSE, lexer |-> l1, literal |-> literal]
                    ELSE [ok |-> TRUE, lexer |-> advance(text, l1),
                          literal |-> [literal EXCEPT !.type = MACRO_EXPR_START,
                                                      !.open_delimiter = LBRACKET,
                                                      !.close_delimiter = RBRACKET]]
               [] c = LPAREN ->
                    IF ~valid_symbols[MACRO_SHELL_START]
                    THEN [ok |-> FALSE, lexer |-> l1, literal |-> literal]
                    ELSE [ok |-> TRUE, lexer |-> advance(text, l1),
                          literal |-> [literal EXCEPT !.type = MACRO_SHELL_START,
                                                      !.open_delimiter = LPAREN,
                                                      !.close_delimiter = RPAREN]]
               [] OTHER -> [ok |-> TRUE, lexer |-> l1, literal |-> literal]
    ELSE [ok |-> TRUE, lexer |-> lexer, literal |-> literal]

rpmspec_macro_start(text, lexer, literal, valid_symbols) ==
    IF lookahead(text, lexer) = PERCENT
    THEN LET l1 == advance(text, lexer)
             c  == lookahead(text, l1)
         IN  CASE c = LBRACE ->
                    IF ~valid_symbols[MACRO_START]
                    THEN [ok |-> FALSE, lexer |-> l1, literal |-> literal]
                    ELSE [ok |-> FALSE, lexer |-> advance(text, l1),
                          literal |-> [literal EXCEPT !.type = MACRO_START,
                                                      !.open_delimiter = LBRACE,
                                                      !.close_delimiter = RBRACE]]
               [] c = LBRACKET ->
                    IF ~valid_symbols[MACRO_EXPR_START]
                    THEN [ok |-> FALSE, lexer |-> l1, literal |-> literal]
                    ELSE [ok |-> FALSE, lexer |-> advance(text, l1),
                          literal |-> [literal EXCEPT !.type = MACRO_EXPR_START,
                                                      !.open_delimiter = LBRACKET,
                                                      !.close_delimiter = RBRACKET]]
               [] c = LPAREN ->
                    IF ~valid_symbols[MACRO_SHELL_START]
                    THEN [ok |-> FALSE, lexer |-> l1, literal |-> literal]
                    ELSE [ok |-> FALSE, lexer |-> advance(text, l1),
                          literal |-> [literal EXCEPT !.type = MACRO_SHELL_START,
                                                      !.open_delimiter = LPAREN,
                                                      !.close_delimiter = RPAREN]]
               [] OTHER -> [ok |-> FALSE, lexer |-> l1, literal |-> literal]
    ELSE [ok |-> FALSE, lexer |-> lexer, literal |-> literal]

\* variant: the advance is not under `case '%'`
EscapeCheck_always(text, lexer) ==
    advance(text, lexer)

\* variant: a second '%' is consumed as well
EscapeCheck_consumes_both(text, lexer) ==
    IF lookahead(text, lexer) = PERCENT
    THEN LET l1 == advance(text, lexer)
         IN  IF lookahead(text, l1) = PERCENT THEN advance(text, l1) ELSE l1
    ELSE lexer

\* the escape check of rpmspec_scan: switch (lexer->lookahead) case '%' ...
EscapeCheck(text, lexer) ==
    IF lookahead(text, lexer) = PERCENT
    THEN advance(text, lexer)
    ELSE lexer

\* result of a scan call that produced no token: ms is the lexer as the
\* macro-start attempt left it (the lexer of the call when no attempt ran),
\* lexer the lexer after the escape check that started from ms
Declined(stack, ms, lexer) ==
    [ret |-> FALSE, literal_stack |-> stack, lexer |-> lexer,
     assigned |-> FALSE, result_symbol |-> NONE,
     ms_advances |-> ms.advances]

\* variant: the closing delimiter of the innermost literal pops it
rpmspec_scan_stack_aware(text, stack, lexer, valid_symbols) ==
    IF /\ stack # << >>
       /\ lookahead(text, lexer) = stack[Len(stack)].close_delimiter
       /\ valid_symbols[MACRO_END]
    THEN [ret |-> TRUE, literal_stack |-> SubSeq(stack, 1, Len(stack) - 1),
          lexer |-> advance(text, lexer),
          assigned |-> TRUE, result_symbol |-> MACRO_END, ms_advances |-> 0]
    ELSE IF valid_symbols[MACRO_START]
    THEN LET r == rpmspec_macro_start(text, lexer, InitLiteral, valid_symbols)
         IN  Declined(stack, r.lexer, EscapeCheck(text, r.lexer))
    ELSE Declined(stack, lexer, EscapeCheck(text, lexer))

\* variant: array_push runs before ok is tested
rpmspec_scan_push_first(text, stack, lexer, valid_symbols) ==
    IF valid_symbols[MACRO_START]
    THEN LET r == rpmspec_macro_start(text, lexer, InitLiteral, valid_symbols)
         IN  IF r.ok
             THEN [ret |-> TRUE, literal_stack |-> Append(stack, r.literal),
                   lexer |-> r.lexer, assigned |-> TRUE,
                   result_symbol |-> r.literal.type,
                   ms_advances |-> r.lexer.advances]
             ELSE Declined(Append(stack, r.literal), r.lexer, EscapeCheck(text, r.lexer))
    ELSE Declined(stack, lexer, EscapeCheck(text, lexer))

rpmspec_scan(text, stack, lexer, valid_symbols) ==
    IF valid_symbols[MACRO_START]
    THEN LET r == rpmspec_macro_start(text, lexer, InitLiteral, valid_symbols)
         IN  IF r.ok
             THEN [ret |-> TRUE, literal_stack |-> Append(stack, r.literal),
                   lexer |-> r.lexer, assigned |-> TRUE,
                   result_symbol |-> r.literal.type,
                   ms_advances |-> r.lexer.advances]
             ELSE Declined(stack, r.lexer, EscapeCheck(text, r.lexer))
    ELSE Declined(stack, lexer, EscapeCheck(text, lexer))

(* --------------------------------------------------------------- state *)
VARIABLES
    payload,        \* "live" after create, "freed" after destroy
    literal_stack,  \* scanner->literal_stack
    input,          \* the document of the session
    pos,            \* cursor position at which the next token is requested
    call,           \* the last scan call (op = "none" when the last operation was not a scan)
    tokens,         \* tokens produced in this session, in order
    sizes,          \* size of literal_stack after each produced token
    offered,        \* scan was called with every kind valid at the current position
    complete,       \* the host never moved past a position without offering it
    saved,          \* the last serialize call: done, length, bytes, stack at that time
    restore         \* the last deserialize call (op = "none" when the last operation was another)

vars == <<payload, literal_stack, input, pos, call, tokens, sizes, offered,
          complete, saved, restore>>

NoCall ==
    [op |-> "none", start |-> 0, valid |-> AllValid, before |-> << >>,
     ret |-> FALSE, assigned |-> FALSE, result_symbol |-> NONE,
     lexer_pos |-> 0, advances |-> 0, ms_advances |-> 0, mark_ends |-> 0]

NoRestore ==
    [op |-> "none", buffer |-> << >>, length |-> 0, from_saved |-> FALSE,
     before |-> << >>]

NoSaved ==
    [done |-> FALSE, length |-> 0, bytes |-> << >>, stack |-> << >>,
     after |-> << >>]

\* ts_calloc(1, sizeof(struct Scanner)): a zeroed scanner, empty literal_stack
NewScanner == << >>

Init ==
    /\ payload = "live"
    /\ literal_stack = NewScanner
    /\ input \in Inputs
    /\ pos = 1
    /\ call = NoCall
    /\ tokens = << >>
    /\ sizes = << >>
    /\ offered = FALSE
    /\ complete = TRUE
    /\ saved = NoSaved
    /\ restore = NoRestore

\* tree_sitter_rpmspec_external_scanner_create: a new session over the document
Create ==
    /\ payload' = "live"
    /\ literal_stack' = NewScanner
    /\ input' = input
    /\ pos' = 1
    /\ call' = NoCall
    /\ tokens' = << >>
    /\ sizes' = << >>
    /\ offered' = FALSE
    /\ complete' = TRUE
    /\ saved' = NoSaved
    /\ restore' = NoRestore

\* tree_sitter_rpmspec_external_scanner_destroy
Destroy ==
    /\ payload = "live"
    /\ payload' = "freed"
    /\ call' = NoCall
    /\ restore' = NoRestore
    /\ UNCHANGED <<literal_stack, input, pos, tokens, sizes, offered, complete, saved>>

\* tree_sitter_rpmspec_external_scanner_scan at the cursor; a produced token
\* moves the cursor to where the lexer stands, a decline leaves it in place
Scan(valid_symbols) ==
    /\ payload = "live"
    /\ Len(tokens) < MaxTokens
    /\ LET r == rpmspec_scan(input, literal_stack,
                             [pos |-> pos, advances |-> 0, mark_ends |-> 0],
                             valid_symbols)
       IN  /\ literal_stack' = r.literal_stack
           /\ call' = [op |-> "scan", start |-> pos, valid |-> valid_symbols,
                       before |-> literal_stack, ret |-> r.ret,
                       assigned |-> r.assigned,
                       result_symbol |-> r.result_symbol,
                       lexer_pos |-> r.lexer.pos,
                       advances |-> r.lexer.advances,
                       ms_advances |-> r.ms_advances,
                       mark_ends |-> r.lexer.mark_ends]
           /\ tokens' = IF r.ret THEN Append(tokens, r.result_symbol) ELSE tokens
           /\ sizes' = IF r.ret THEN Append(sizes, Len(r.literal_stack)) ELSE sizes
           /\ pos' = IF r.ret THEN r.lexer.pos ELSE pos
           /\ offered' = IF r.ret /\ r.lexer.pos # pos
                         THEN FALSE
                         ELSE offered \/ valid_symbols = AllValid
    /\ restore' = NoRestore
    /\ UNCHANGED <<payload, input, complete, saved>>

\* the host's own tokenizer takes the character the scanner declined
HostSkip ==
    /\ payload = "live"
    /\ pos <= Len(input)
    /\ pos' = pos + 1
    /\ complete' = (complete /\ offered)
    /\ offered' = FALSE
    /\ call' = NoCall
    /\ restore' = NoRestore
    /\ UNCHANGED <<payload, literal_stack, input, tokens, sizes, saved>>

\* tree_sitter_rpmspec_external_scanner_serialize
Serialize ==
    /\ payload = "live"
    /\ LET r == rpmspec_serialize(literal_stack, << >>)
       IN  /\ literal_stack' = r.scanner
           /\ saved' = [done |-> TRUE, length |-> r.size,
                        bytes |-> SubSeq(r.buffer, 1, r.size),
                        stack |-> literal_stack, after |-> r.scanner]
    /\ call' = NoCall
    /\ restore' = NoRestore
    /\ UNCHANGED <<payload, input, pos, tokens, sizes, offered, complete>>

\* tree_sitter_rpmspec_external_scanner_deserialize with a buffer of the host
Deserialize(buffer) ==
    /\ payload = "live"
    /\ literal_stack' = rpmspec_deserialize(literal_stack, buffer, Len(buffer))
    /\ restore' = [op |-> "deserialize", buffer |-> buffer, length |-> Len(buffer),
                   from_saved |-> (saved.done /\ buffer = saved.bytes),
                   before |-> literal_stack]
    /\ call' = NoCall
    /\ UNCHANGED <<payload, input, pos, tokens, sizes, offered, complete, saved>>

Next ==
    \/ Create
    \/ Destroy
    \/ \E v \in ValidSets : Scan(v)
    \/ HostSkip
    \/ Serialize
    \/ \E b \in Buffers : Deserialize(b)

Spec == Init /\ [][Next]_vars

TypeOK ==
    /\ payload \in {"live", "freed"}
    /\ input \in Inputs
    /\ pos \in 1..(Len(input) + 1)
    /\ Len(tokens) <= MaxTokens
    /\ Len(sizes) = Len(tokens)

(* ------------------------------------------------- helpers of the claims *)
\* the character of the document at position p, 0 past its end
At(p) == IF p >= 1 /\ p <= Len(input) THEN input[p] ELSE 0

\* the entry a scan call pushed, when it pushed exactly one
PushedOne == /\ Len(literal_stack) = Len(call.before) + 1
             /\ SubSeq(literal_stack, 1, Len(call.before)) = call.before

Top == literal_stack[Len(literal_stack)]

IsPrefix(s, t) == Len(s) <= Len(t) /\ SubSeq(t, 1, Len(s)) = s

ScanAt(c1, c2) == call.op = "scan" /\ At(call.start) = c1 /\ At(call.start + 1) = c2

(* -------------------------------------------------------------------- C1 *)
\* C1: round trip of the resumable state: once deserialize has been given the
\* bytes and length returned by serialize, the scanner holds the stack it held
\* when serialize was called.
C1_RoundTrip ==
    (restore.op = "deserialize" /\ restore.from_saved)
        => literal_stack = saved.stack

C1_Witness ==
    /\ restore.op = "deserialize"
    /\ restore.from_saved
    /\ saved.done
    /\ saved.stack = << >>
    /\ literal_stack = << >>
    /\ pos > 1

(* -------------------------------------------------------------------- C2 *)
\* C2: a scan at %{ with MACRO_START valid pushes exactly one context (brace,
\* { }, depth 1), sets the result to MACRO_START and returns true; with
\* MACRO_START not valid it declines.
C2_BraceMacroStart ==
    ScanAt(PERCENT, LBRACE) =>
        IF call.valid[MACRO_START]
        THEN /\ call.ret
             /\ call.result_symbol = MACRO_START
             /\ PushedOne
             /\ Top.type = MACRO_START
             /\ Top.open_delimiter = LBRACE
             /\ Top.close_delimiter = RBRACE
             /\ Top.nesting_depth = 1
        ELSE ~call.ret

(* -------------------------------------------------------------------- C3 *)
\* C3: a scan at %[ with MACRO_EXPR_START valid pushes an expression context
\* ([ ], depth 1) and emits MACRO_EXPR_START, and a scan at %( with
\* MACRO_SHELL_START valid pushes a shell context (( ), depth 1) and emits
\* MACRO_SHELL_START, whether or not MACRO_START is valid too.
C3_ExprShellMacroStart ==
    /\ (ScanAt(PERCENT, LBRACKET) /\ call.valid[MACRO_EXPR_START]) =>
            /\ call.ret
            /\ call.result_symbol = MACRO_EXPR_START
            /\ PushedOne
            /\ Top.type = MACRO_EXPR_START
            /\ Top.open_delimiter = LBRACKET
            /\ Top.close_delimiter = RBRACKET
            /\ Top.nesting_depth = 1
    /\ (ScanAt(PERCENT, LPAREN) /\ call.valid[MACRO_SHELL_START]) =>
            /\ call.ret
            /\ call.result_symbol = MACRO_SHELL_START
            /\ PushedOne
            /\ Top.type = MACRO_SHELL_START
            /\ Top.open_delimiter = LPAREN
            /\ Top.close_delimiter = RPAREN
            /\ Top.nesting_depth = 1

(* -------------------------------------------------------------------- C4 *)
\* C4: a scan never emits a token kind that is not valid; in particular with
\* MACRO_START not valid it neither emits MACRO_START nor pushes a brace
\* context, even at %{.
C4_UnacceptableRefusal ==
    call.op = "scan" =>
        /\ call.ret => /\ call.result_symbol \in DOMAIN call.valid
                       /\ call.valid[call.result_symbol]
        /\ ~call.valid[MACRO_START] =>
              /\ ~(call.ret /\ call.result_symbol = MACRO_START)
              /\ \/ Len(literal_stack) <= Len(call.before)
                 \/ Top.type # MACRO_START

C4_Witness ==
    /\ ScanAt(PERCENT, LBRACE)
    /\ ~call.valid[MACRO_START]
    /\ ~call.ret
    /\ literal_stack = call.before

(* -------------------------------------------------------------------- C5 *)
\* C5: a scan at %% with an empty stack returns no token and leaves the stack
\* empty, for every valid set and every text after the %%.
C5_EscapeIdempotence ==
    (ScanAt(PERCENT, PERCENT) /\ call.before = << >>)
        => (~call.ret /\ literal_stack = << >>)

C5_Witness ==
    /\ ScanAt(PERCENT, PERCENT)
    /\ call.before = << >>
    /\ call.valid[MACRO_START]
    /\ At(call.start + 2) # 0
    /\ ~call.ret
    /\ literal_stack = << >>

(* -------------------------------------------------------------------- C6 *)
\* depth of the brace context when the cursor stands at p in Nest(n), 3 <= p <= 2n+3
NestDepth(n, p) == IF p - 3 <= n THEN p - 2 ELSE 2 * n + 4 - p

\* C6: over %{ {^N }^(N+1), offered from an empty stack with every kind valid,
\* the scan at the start emits MACRO_START, the N inner { and the first N }
\* only move the depth of the one brace context, and the last } emits MACRO_END
\* and leaves the stack empty: the tokens are MACRO_START, MACRO_END.
C6_BalancedNesting ==
    \A n \in 0..MaxNest :
        input = Nest(n) =>
            /\ (call.op = "scan" /\ call.start = 1 /\ call.before = << >>
                    /\ call.valid = AllValid)
                  => (call.ret /\ call.result_symbol = MACRO_START)
            /\ (complete /\ pos >= 3 /\ pos <= 2 * n + 3)
                  => /\ tokens = <<MACRO_START>>
                     /\ Len(literal_stack) = 1
                     /\ literal_stack[1].type = MACRO_START
                     /\ literal_stack[1].nesting_depth = NestDepth(n, pos)
            /\ (complete /\ pos = 2 * n + 4)
                  => /\ tokens = <<MACRO_START, MACRO_END>>
                     /\ literal_stack = << >>

(* -------------------------------------------------------------------- C7 *)
MixedTokens == <<MACRO_START, MACRO_EXPR_START, MACRO_END, MACRO_END>>

MixedSizes == <<1, 2, 1, 0>>

\* C7: over %{a %[b] c}, offered from an empty stack with every kind valid at
\* each position, the tokens are MACRO_START, MACRO_EXPR_START, MACRO_END,
\* MACRO_END in that order and the stack sizes after them are 1, 2, 1, 0.
C7_MixedNestedKinds ==
    input = MixedDoc =>
        /\ (call.op = "scan" /\ call.start = 1 /\ call.before = << >>
                /\ call.valid = AllValid)
              => (call.ret /\ call.result_symbol = MACRO_START)
        /\ complete => (IsPrefix(tokens, MixedTokens) /\ IsPrefix(sizes, MixedSizes))
        /\ (complete /\ pos = Len(input) + 1)
              => (tokens = MixedTokens /\ sizes = MixedSizes)

(* -------------------------------------------------------------------- C8 *)
\* '*', '#', '_' and the alphanumerics
NameChar(c) == c \in {42, 35, 95} \cup (48..57) \cup (65..90) \cup (97..122)

\* length of the maximal run of name characters starting at position p
RECURSIVE NameRun(_)
NameRun(p) == IF NameChar(At(p)) THEN 1 + NameRun(p + 1) ELSE 0

\* C8: a scan at % followed by a non-empty maximal run of name characters
\* emits one token, which is none of the delimiter tokens, ending right after
\* the run, and pushes no context; with an empty run that is not a delimiter
\* or escape the scan declines.
C8_SimpleMacroLongestMatch ==
    (call.op = "scan" /\ At(call.start) = PERCENT) =>
        LET run == NameRun(call.start + 1)
        IN  /\ run > 0 => /\ call.ret
                          /\ call.result_symbol \notin MACRO_START..NONE
                          /\ call.lexer_pos = call.start + 1 + run
                          /\ literal_stack = call.before
            /\ (run = 0 /\ At(call.start + 1) \notin {PERCENT, LBRACE, LBRACKET, LPAREN})
                  => ~call.ret

(* -------------------------------------------------------------------- C9 *)
\* C9: whenever a scan call returns false, the stack after the call is the
\* stack before the call.
C9_DeclineKeepsStack ==
    (call.op = "scan" /\ ~call.ret) => literal_stack = call.before

C9_Witness ==
    /\ ScanAt(PERCENT, LBRACE)
    /\ call.valid[MACRO_START]
    /\ call.advances = 2
    /\ ~call.ret
    /\ literal_stack = call.before

(* ------------------------------------------------------------------- C10 *)
\* C10: after deserialize with a zero-length buffer the stack is empty.
C10_ZeroLengthResets ==
    (restore.op = "deserialize" /\ restore.length = 0) => literal_stack = << >>

C10_Witness ==
    /\ restore.op = "deserialize"
    /\ restore.length = 0
    /\ restore.before = << >>
    /\ literal_stack = << >>
    /\ offered

(* ------------------------------------------------------------------- C11 *)
\* C11: every scan call ends in one of the two outcomes, token produced
\* (true, result assigned) or declined (false, nothing assigned), having
\* advanced a bounded number of characters, none of them past the end of the
\* document; this includes calls at the end of the input.
C11_Totality ==
    call.op = "scan" =>
        /\ call.ret \in BOOLEAN
        /\ call.ret <=> call.assigned
        /\ call.advances \in 0..(Len(input) + 1 - call.start)
        /\ call.lexer_pos = call.start + call.advances

C11_Witness ==
    /\ call.op = "scan"
    /\ Len(input) > 0
    /\ call.start = Len(input) + 1
    /\ call.valid[MACRO_START]
    /\ ~call.ret
    /\ call.advances = 0

(* ------------------------------------------------------------------- C12 *)
RECURSIVE CountIn(_, _)
CountIn(seq, set) ==
    IF seq = << >> THEN 0
    ELSE (IF Head(seq) \in set THEN 1 ELSE 0) + CountIn(Tail(seq), set)

StartTokens == {MACRO_START, MACRO_EXPR_START, MACRO_SHELL_START}

\* C12: the number of contexts on the stack is the number of start tokens
\* emitted so far minus the number of MACRO_END tokens emitted so far, it is
\* never negative, and every context on the stack has depth >= 1.
C12_StackDepthInvariant ==
    LET open == CountIn(tokens, StartTokens) - CountIn(tokens, {MACRO_END})
    IN  /\ Len(literal_stack) = open
        /\ open >= 0
        /\ \A i \in 1..Len(literal_stack) : literal_stack[i].nesting_depth >= 1

C12_Witness ==
    /\ ScanAt(PERCENT, LBRACE)
    /\ call.valid = AllValid
    /\ call.advances = 2
    /\ tokens = << >>
    /\ Len(literal_stack) = 0

C14_EscapeConsumption ==
    ScanAt(PERCENT, PERCENT) =>
        /\ ~call.ret
        /\ call.advances = 2
        /\ call.lexer_pos = call.start + 2

(* ------------------------------------------------------------------- C15 *)
\* C15: a scan whose lookahead is not % and whose stack is empty declines
\* without advancing, without a result token and without changing the stack.
C15_NonIntroducerDecline ==
    (call.op = "scan" /\ At(call.start) # PERCENT /\ call.before = << >>)
        => /\ ~call.ret
           /\ call.advances = 0
           /\ call.lexer_pos = call.start
           /\ ~call.assigned
           /\ literal_stack = << >>

C15_Witness ==
    /\ call.op = "scan"
    /\ At(call.start) = LBRACE
    /\ call.valid[MACRO_START]
    /\ call.before = << >>
    /\ ~call.ret
    /\ call.advances = 0

(* ------------------------------------------------------------------- C16 *)
ValidContext(l) ==
    /\ l.type \in StartTokens
    /\ l.nesting_depth >= 1
    /\ <<l.type, l.open_delimiter, l.close_delimiter>> \in
          { <<MACRO_START, LBRACE, RBRACE>>,
            <<MACRO_EXPR_START, LBRACKET, RBRACKET>>,
            <<MACRO_SHELL_START, LPAREN, RPAREN>> }

\* bytes that encode no context: a kind of 255 or a depth of 0 among them,
\* in a buffer shorter than one entry
Malformed(buffer) ==
    buffer # << >> /\ \E i \in 1..Len(buffer) : buffer[i] \in {0, 255}

\* C16: after deserialize of a malformed buffer the scanner holds no invalid
\* context: the stack is empty.
C16_MalformedRestore ==
    (restore.op = "deserialize" /\ Malformed(restore.buffer))
        => /\ \A i \in 1..Len(literal_stack) : ValidContext(literal_stack[i])
           /\ literal_stack = << >>

C16_Witness ==
    /\ restore.op = "deserialize"
    /\ Len(restore.buffer) = 1
    /\ restore.buffer[1] = 255
    /\ literal_stack = << >>

(* ------------------------------------------------------------------- C17 *)
\* C17: rpmspec_scan never produces a token: every call returns false and
\* assigns no result symbol, also at %{, %[ and %( with the kind valid, and
\* literal_stack is empty in every reachable state.
C17_NeverProducesToken ==
    /\ call.op = "scan" => (~call.ret /\ ~call.assigned)
    /\ literal_stack = << >>
    /\ tokens = << >>

C17_Witness ==
    /\ ScanAt(PERCENT, LBRACKET)
    /\ call.valid[MACRO_START]
    /\ call.valid[MACRO_EXPR_START]
    /\ call.advances = 2
    /\ ~call.ret
    /\ literal_stack = << >>

(* ------------------------------------------------------------------- C18 *)
\* C18: one scan call advances at most 3 times: at most 2 in the macro-start
\* attempt, which runs only when MACRO_START is valid, plus at most 1 in the
\* escape check; it never calls mark_end; and the escape check looks at the
\* character where the macro-start attempt left the cursor, not at the
\* character where the call began.
C18_BoundedCursorMovement ==
    call.op = "scan" =>
        LET esc == call.advances - call.ms_advances
        IN  /\ call.advances <= 3
            /\ call.ms_advances \in 0..2
            /\ ~call.valid[MACRO_START] => call.ms_advances = 0
            /\ esc \in 0..1
            /\ call.mark_ends = 0
            /\ esc = 1 <=> At(call.start + call.ms_advances) = PERCENT

C18_Witness ==
    /\ ScanAt(PERCENT, LBRACE)
    /\ At(call.start + 2) = PERCENT
    /\ call.ms_advances = 2
    /\ call.advances = 3
    /\ call.mark_ends = 0

(* ------------------------------------------------------------------- C19 *)
\* contexts a scanner with another history could hold
Contexts ==
    { [type |-> MACRO_START, open_delimiter |-> LBRACE, close_delimiter |-> RBRACE,
       nesting_depth |-> 1, allows_interpolation |-> TRUE],
      [type |-> MACRO_EXPR_START, open_delimiter |-> LBRACKET, close_delimiter |-> RBRACKET,
       nesting_depth |-> 1, allows_interpolation |-> TRUE],
      [type |-> MACRO_SHELL_START, open_delimiter |-> LPAREN, close_delimiter |-> RPAREN,
       nesting_depth |-> 1, allows_interpolation |-> FALSE] }

RECURSIVE Stacks(_)
Stacks(n) ==
    IF n = 0 THEN {<< >>}
    ELSE LET shorter == Stacks(n - 1)
         IN  shorter \cup {Append(st, l) : st \in {t \in shorter : Len(t) = n - 1},
                                           l \in Contexts}

\* C19: the return value of a scan call and the number of characters it
\* advances depend on the input at the cursor and valid_symbols only: a scanner
\* holding any other stack answers the same call the same way; and serialize
\* returns 0 bytes and leaves the scanner as it was.
C19_StateIndependence ==
    /\ call.op = "scan" =>
          \A st \in Stacks(MaxStack) :
              LET r == rpmspec_scan(input, st,
                                    [pos |-> call.start, advances |-> 0, mark_ends |-> 0],
                                    call.valid)
              IN  /\ r.ret = call.ret
                  /\ r.lexer.advances = call.advances
                  /\ r.lexer.pos = call.lexer_pos
    /\ saved.done => /\ saved.length = 0
                     /\ saved.bytes = << >>
                     /\ saved.after = saved.stack

C19_Witness ==
    /\ ScanAt(PERCENT, LBRACE)
    /\ call.valid[MACRO_START]
    /\ call.advances = 2
    /\ saved.done
    /\ saved.length = 0
    /\ pos > 1

(* ------------------------------ rpmspec_scan as a function of its scanner *)
\* rpmspec_scan(struct Scanner *scanner, ...): the scanner argument holds any
\* literal_stack of up to MaxStack contexts when the calls begin
InitScan ==
    /\ payload = "live"
    /\ literal_stack \in Stacks(MaxStack)
    /\ input \in Inputs
    /\ pos = 1
    /\ call = NoCall
    /\ tokens = << >>
    /\ sizes = << >>
    /\ offered = FALSE
    /\ complete = TRUE
    /\ saved = NoSaved
    /\ restore = NoRestore

NextScan ==
    \/ \E v \in ValidSets : Scan(v)
    \/ HostSkip

ScanSpec == InitScan /\ [][NextScan]_vars

====
